---- MODULE Spec2Model ----
(***************************************************************************)
(* Model of the User resource manager (pkg/user/user.go) over an abstract  *)
(* key-value store reached through dynamodbiface.DynamoDBAPI.              *)
(*                                                                         *)
(* Every invocation of FetchUser, FetchUsers, CreateUser, UpdateUser and   *)
(* DeleteUser is a process p.  Store calls are the atomic steps: an        *)
(* invocation that makes two store calls (CreateUser, UpdateUser) takes    *)
(* two steps, so that other invocations can run between its GetItem and    *)
(* its PutItem.  Local computation (json.Unmarshal, IsEmailValid,          *)
(* MarshalMap, UnmarshalMap) is folded into the step of the store call it  *)
(* precedes or follows.  Every store call may succeed or fail.             *)
(***************************************************************************)
EXTENDS Integers, Sequences, FiniteSets, TLC

\* ------------------------------------------------------------------ bounds
NumProcs == 2
NumEmails == 1
NumNames == 1

Procs == 1..NumProcs

EmailPool == <<"a@b.co", "c@d.io", "e@f.org">>
NamePool == <<"A", "B", "C">>
\* well-formed addresses; as arguments also an address without '@' and the
\* empty string (a missing query parameter)
ValidPool == {EmailPool[i] : i \in 1..NumEmails}
EmailInputs == ValidPool \cup {"not-an-email", ""}
Names == {NamePool[i] : i \in 1..NumNames}

\* --------------------------------------------------------------- constants
tableName == "go-serverless"

ErrorFailedToFetchRecord == "failed to fetch record"
ErrorFailedToUnmarshalRecord == "failed to unmarshal record"
ErrorInvalidUserData == "invalid user data"
ErrorInvalidEmail == "invalid email"
ErrorMarshalItem == "could not marshal item"
ErrorDeleteItem == "could not delete item"
ErrorDynamoPutItem == "could not dynamo put item"
ErrorUserAlreadyExists == "user already exists"
ErrorUserDoesNotExists == "user does not exists"
NoError == "nil"

\* ------------------------------------------------------------------ values
\* a Go pointer: Nil, or Ptr(v)
Nil == << >>
Ptr(v) == <<v>>
Deref(p) == p[1]

\* type User struct { Email, FirstName, LastName string }
User(e, f, l) == [Email |-> e, FirstName |-> f, LastName |-> l]
ZeroUser == User("", "", "")

\* the struct's field tags, which name the JSON keys and the item attributes
Attrs == {"email", "firstName", "lastName"}
Field(u, a) ==
  CASE a = "email" -> u.Email
    [] a = "firstName" -> u.FirstName
    [] a = "lastName" -> u.LastName

\* dynamodb.AttributeValue: a string, NULL, or a value of another type
AvS(s) == [type |-> "S", val |-> s]
AvNULL == [type |-> "NULL", val |-> ""]
AvBOOL == [type |-> "BOOL", val |-> "true"]

EmptyItem == [a \in {} |-> AvNULL]

\* ---------------------------------------------------------- request bodies
\* A request body is either text that is not a JSON object of strings, or a
\* JSON object holding some of the keys email, firstName, lastName.
Omitted == "<omitted>"
JsonObject(e, f, l) ==
  LET v == [a \in Attrs |-> CASE a = "email" -> e
                              [] a = "firstName" -> f
                              [] a = "lastName" -> l]
  IN [wellFormed |-> TRUE,
      obj |-> [a \in {b \in Attrs : v[b] # Omitted} |-> v[a]]]
MalformedBody == [wellFormed |-> FALSE, obj |-> [a \in {} |-> ""]]

Bodies ==
  {MalformedBody} \cup
  {JsonObject(e, f, l) : e \in ValidPool \cup {"not-an-email", Omitted},
                         f \in Names \cup {Omitted},
                         l \in Names \cup {Omitted}}

\* json.Unmarshal([]byte(req.Body), &u): a key missing from the object leaves
\* the struct's field at its zero value
JsonOk(body) == body.wellFormed
JsonGet(body, a) == IF a \in DOMAIN body.obj THEN body.obj[a] ELSE ""
JsonUnmarshal(body) ==
  User(JsonGet(body, "email"), JsonGet(body, "firstName"), JsonGet(body, "lastName"))

\* events.APIGatewayProxyRequest: the body and the "email" query parameter
Request(body, email) == [Body |-> body, Email |-> email]
NoRequest == Request(MalformedBody, "")

\* ----------------------------------------------------- attribute encoding
\* dynamodbattribute.MarshalMap(user): one attribute per field; the encoder
\* writes an empty string as NULL
MarshalAv(s) == IF s = "" THEN AvNULL ELSE AvS(s)
\* an encoding that writes FirstName under lastName as well
MarshalMapSwapped(u) ==
  [a \in Attrs |-> MarshalAv(Field(u, IF a = "lastName" THEN "firstName" ELSE a))]
MarshalMap(u) == [a \in Attrs |-> MarshalAv(Field(u, a))]

\* dynamodbattribute.UnmarshalMap(item, &User{}): a missing or NULL attribute
\* leaves the zero value, a string is copied, any other type is an error
UnmarshalOk(item) == \A a \in DOMAIN item : item[a].type \in {"S", "NULL"}
\* a decoding that looks for the email under the field's name, not its tag
UnmarshalAvWrongTag(item, a) ==
  IF a # "email" /\ a \in DOMAIN item /\ item[a].type = "S" THEN item[a].val ELSE ""
UnmarshalAv(item, a) ==
  IF a \in DOMAIN item /\ item[a].type = "S" THEN item[a].val ELSE ""
UnmarshalMap(item) ==
  User(UnmarshalAv(item, "email"), UnmarshalAv(item, "firstName"),
       UnmarshalAv(item, "lastName"))

\* --------------------------------------------------------------- the store
\* The table named tableName maps the value of the key attribute "email" to
\* the item stored under it.  Calls naming another table touch nothing.
\* a table keyed on the attribute firstName
KeyOfFirstName(item) == item["firstName"].val
HasKey(item) == "email" \in DOMAIN item /\ item["email"].type = "S" /\ item["email"].val # ""
KeyOf(item) == item["email"].val

GetItemOut(t, tbl, key) ==
  IF tbl = tableName /\ key \in DOMAIN t THEN t[key] ELSE EmptyItem
\* a put that keeps the item already stored under the key
PutItemIfAbsent(t, tbl, item) ==
  IF tbl = tableName
    THEN [k \in DOMAIN t \cup {KeyOf(item)} |-> IF k \in DOMAIN t THEN t[k] ELSE item]
    ELSE t
\* a put that keeps the stored value of an attribute the new item has as NULL
PutItemMerge(t, tbl, item) ==
  IF tbl = tableName
    THEN [k \in DOMAIN t \cup {KeyOf(item)} |->
            IF k # KeyOf(item) THEN t[k]
            ELSE IF k \notin DOMAIN t THEN item
            ELSE [a \in DOMAIN item |->
                    IF item[a].type = "NULL" /\ a \in DOMAIN t[k] THEN t[k][a] ELSE item[a]]]
    ELSE t
PutItemOut(t, tbl, item) ==
  IF tbl = tableName
    THEN [k \in DOMAIN t \cup {KeyOf(item)} |-> IF k = KeyOf(item) THEN item ELSE t[k]]
    ELSE t
DeleteItemOut(t, tbl, key) ==
  IF tbl = tableName THEN [k \in DOMAIN t \ {key} |-> t[k]] ELSE t
\* a put of an item without a usable key attribute cannot succeed
PutOutcomes(item) == IF HasKey(item) THEN BOOLEAN ELSE {FALSE}

StoreCall(api, tbl, key, ok, item) ==
  [api |-> api, TableName |-> tbl, key |-> key, ok |-> ok, item |-> item]

\* ------------------------------------------------------------- validators
\* The characters of the strings the model uses as email inputs.
Chars(s) ==
  CASE s = "a@b.co" -> <<"a", "@", "b", ".", "c", "o">>
    [] s = "c@d.io" -> <<"c", "@", "d", ".", "i", "o">>
    [] s = "e@f.org" -> <<"e", "@", "f", ".", "o", "r", "g">>
    [] s = "not-an-email" -> <<"n", "o", "t", "-", "a", "n", "-", "e", "m", "a", "i", "l">>
    [] OTHER -> << >>
Letters == {"a", "b", "c", "d", "e", "f", "g", "i", "l", "m", "n", "o", "r", "t"}
LocalChars == Letters \cup {".", "-"}
AllIn(cs, i, j, S) == \A k \in i..j : cs[k] \in S

\* validators.IsEmailValid: localpart '@' domain '.' tld, with a non-empty
\* local part, a non-empty domain and a tld of at least two letters
IsEmailValid(email) ==
  LET cs == Chars(email)
      n == Len(cs)
  IN \E at \in 2..n : \E dot \in (at + 2)..(n - 2) :
        /\ cs[at] = "@"
        /\ cs[dot] = "."
        /\ AllIn(cs, 1, at - 1, LocalChars)
        /\ AllIn(cs, at + 1, dot - 1, LocalChars)
        /\ AllIn(cs, dot + 1, n, Letters)

\* ------------------------------------------------------------------- state
VARIABLES
  table,     \* the store's table tableName: key -> item
  pc,        \* per invocation: "idle", "create_put", "update_put", "done"
  op,        \* per invocation: the operation called
  req,       \* per invocation: the request (or the email argument)
  user,      \* per invocation: createuser / updateuser, the decoded body
  curruser,  \* per invocation: the result of the existence check
  ret,       \* per invocation: the returned value and error
  calls,     \* per invocation: the store calls issued so far
  prev       \* the invocation that returned last

vars == <<table, pc, op, req, user, curruser, ret, calls, prev>>

Result(val, err) == [val |-> val, err |-> err]
NoResult == Result(Nil, NoError)
Invocation(o, r, res, cs) == [op |-> o, req |-> r, ret |-> res, calls |-> cs]
NoInvocation == Invocation("none", NoRequest, NoResult, << >>)

\* Items another writer may have left in the table before the first call:
\* nothing, or an item whose firstName is not a string.
BadItem(e) == [a \in Attrs |-> CASE a = "email" -> AvS(e)
                                 [] a = "firstName" -> AvBOOL
                                 [] a = "lastName" -> AvNULL]
InitTables ==
  {[k \in {} |-> EmptyItem]} \cup {[k \in {e} |-> BadItem(e)] : e \in ValidPool}

Init ==
  /\ table \in InitTables
  /\ pc = [p \in Procs |-> "idle"]
  /\ op = [p \in Procs |-> "none"]
  /\ req = [p \in Procs |-> NoRequest]
  /\ user = [p \in Procs |-> ZeroUser]
  /\ curruser = [p \in Procs |-> Nil]
  /\ ret = [p \in Procs |-> NoResult]
  /\ calls = [p \in Procs |-> << >>]
  /\ prev = NoInvocation

\* -------------------------------------------------------------- operations
\* a FetchUser that reports a key without a record as a failed fetch
FetchUserNotFound(t, email, tbl, ok) ==
  LET item == GetItemOut(t, tbl, email)
  IN IF ~ok \/ item = EmptyItem THEN Result(Nil, ErrorFailedToFetchRecord)
     ELSE IF ~UnmarshalOk(item) THEN Result(Nil, ErrorFailedToUnmarshalRecord)
     ELSE Result(Ptr(UnmarshalMap(item)), NoError)
\* FetchUser's result for a GetItem that succeeded (ok) or failed
FetchUser(t, email, tbl, ok) ==
  LET item == GetItemOut(t, tbl, email)
  IN IF ~ok THEN Result(Nil, ErrorFailedToFetchRecord)
     ELSE IF ~UnmarshalOk(item) THEN Result(Nil, ErrorFailedToUnmarshalRecord)
     ELSE Result(Ptr(UnmarshalMap(item)), NoError)
GetItemCall(t, email, tbl, ok) ==
  StoreCall("GetItem", tbl, email, ok, IF ok THEN GetItemOut(t, tbl, email) ELSE EmptyItem)

Begin(p, o, r) ==
  /\ pc[p] = "idle"
  /\ op' = [op EXCEPT ![p] = o]
  /\ req' = [req EXCEPT ![p] = r]
Finish(p, res) ==
  /\ pc' = [pc EXCEPT ![p] = "done"]
  /\ ret' = [ret EXCEPT ![p] = res]

\* a FetchUser that creates the record it did not find
FetchUserCallOrCreate(p, email) ==
  /\ Begin(p, "FetchUser", Request(MalformedBody, email))
  /\ \E ok \in BOOLEAN :
       /\ calls' = [calls EXCEPT ![p] = <<GetItemCall(table, email, tableName, ok)>>]
       /\ Finish(p, FetchUser(table, email, tableName, ok))
       /\ table' = IF ok /\ GetItemOut(table, tableName, email) = EmptyItem
                     THEN PutItemOut(table, tableName,
                                     MarshalMap([ZeroUser EXCEPT !.Email = email]))
                     ELSE table
  /\ UNCHANGED <<user, curruser, prev>>
FetchUserCall(p, email) ==
  /\ Begin(p, "FetchUser", Request(MalformedBody, email))
  /\ \E ok \in BOOLEAN :
       /\ calls' = [calls EXCEPT ![p] = <<GetItemCall(table, email, tableName, ok)>>]
       /\ Finish(p, FetchUser(table, email, tableName, ok))
  /\ UNCHANGED <<table, user, curruser, prev>>

\* the orders in which a scan may return the items
Orders(S) ==
  {s \in [1..Cardinality(S) -> S] : \A i, j \in 1..Cardinality(S) : s[i] = s[j] => i = j}
FetchUsers(t, order, ok) ==
  IF ~ok THEN Result(Nil, ErrorFailedToFetchRecord)
  ELSE IF \E k \in DOMAIN t : ~UnmarshalOk(t[k]) THEN Result(Nil, ErrorFailedToUnmarshalRecord)
  ELSE Result(Ptr([i \in DOMAIN order |-> UnmarshalMap(t[order[i]])]), NoError)

FetchUsersCall(p) ==
  /\ Begin(p, "FetchUsers", NoRequest)
  /\ \E ok \in BOOLEAN : \E order \in Orders(DOMAIN table) :
       /\ calls' = [calls EXCEPT ![p] = <<StoreCall("Scan", tableName, "", ok, EmptyItem)>>]
       /\ Finish(p, FetchUsers(table, order, ok))
  /\ UNCHANGED <<table, user, curruser, prev>>

\* the test that also rejects when the existence check failed
AlreadyExistsOrError(cur) == cur = Nil \/ Deref(cur).Email # ""
\* the test with the comparison of UpdateUser
AlreadyExistsInverted(cur) == cur # Nil /\ Deref(cur).Email = ""
\* CreateUser's test after the existence check: the fetch returned a user
\* and that user has an email
AlreadyExists(cur) == cur # Nil /\ Deref(cur).Email # ""
\* the test that also rejects when the existence check failed
DoesNotExistOrError(cur) == cur = Nil \/ Deref(cur).Email = ""
\* the test with the comparison of CreateUser
DoesNotExistInverted(cur) == cur # Nil /\ Deref(cur).Email # ""
\* the test that takes only a failed existence check for a missing record
DoesNotExistNilOnly(cur) == cur = Nil
\* UpdateUser's test after the existence check
DoesNotExist(cur) == cur # Nil /\ Deref(cur).Email = ""
\* MarshalMap of a struct of three strings has no failing case
MarshalOk(u) == TRUE
\* no validation
EmailUnchecked(createuser) == TRUE
\* CreateUser's validation of the decoded request
EmailChecked(createuser) == IsEmailValid(createuser.Email)

\* a CreateUser that makes its existence check before it validates the email
CreateUserFetchFirst(p, body) ==
  /\ Begin(p, "CreateUser", Request(body, ""))
  /\ IF ~JsonOk(body)
       THEN /\ Finish(p, Result(Nil, ErrorInvalidUserData))
            /\ UNCHANGED <<user, curruser, calls>>
     ELSE LET createuser == JsonUnmarshal(body) IN
       /\ user' = [user EXCEPT ![p] = createuser]
       /\ \E ok \in BOOLEAN :
            LET cur == FetchUser(table, createuser.Email, tableName, ok).val IN
            /\ calls' = [calls EXCEPT ![p] =
                           <<GetItemCall(table, createuser.Email, tableName, ok)>>]
            /\ curruser' = [curruser EXCEPT ![p] = cur]
            /\ IF AlreadyExists(cur)
                 THEN Finish(p, Result(Nil, ErrorUserAlreadyExists))
               ELSE IF ~EmailChecked(createuser)
                 THEN Finish(p, Result(Nil, ErrorInvalidEmail))
               ELSE pc' = [pc EXCEPT ![p] = "create_put"] /\ UNCHANGED ret
  /\ UNCHANGED <<table, prev>>
\* CreateUser up to and including its GetItem
CreateUser(p, body) ==
  /\ Begin(p, "CreateUser", Request(body, ""))
  /\ IF ~JsonOk(body)
       THEN /\ Finish(p, Result(Nil, ErrorInvalidUserData))
            /\ UNCHANGED <<user, curruser, calls>>
     ELSE LET createuser == JsonUnmarshal(body) IN
       /\ user' = [user EXCEPT ![p] = createuser]
       /\ IF ~EmailChecked(createuser)
            THEN /\ Finish(p, Result(Nil, ErrorInvalidEmail))
                 /\ UNCHANGED <<curruser, calls>>
          ELSE \E ok \in BOOLEAN :
            LET cur == FetchUser(table, createuser.Email, tableName, ok).val IN
            /\ calls' = [calls EXCEPT ![p] =
                           <<GetItemCall(table, createuser.Email, tableName, ok)>>]
            /\ curruser' = [curruser EXCEPT ![p] = cur]
            /\ IF AlreadyExists(cur)
                 THEN Finish(p, Result(Nil, ErrorUserAlreadyExists))
               ELSE IF ~MarshalOk(createuser)
                 THEN Finish(p, Result(Nil, ErrorMarshalItem))
               ELSE pc' = [pc EXCEPT ![p] = "create_put"] /\ UNCHANGED ret
  /\ UNCHANGED <<table, prev>>

\* an UpdateUser that validates the email as CreateUser does
UpdateUserValidating(p, body) ==
  /\ Begin(p, "UpdateUser", Request(body, ""))
  /\ IF ~JsonOk(body)
       THEN /\ Finish(p, Result(Nil, ErrorInvalidUserData))
            /\ UNCHANGED <<user, curruser, calls>>
     ELSE LET updateuser == JsonUnmarshal(body) IN
       /\ user' = [user EXCEPT ![p] = updateuser]
       /\ IF ~EmailChecked(updateuser)
            THEN /\ Finish(p, Result(Nil, ErrorInvalidEmail))
                 /\ UNCHANGED <<curruser, calls>>
          ELSE \E ok \in BOOLEAN :
            LET cur == FetchUser(table, updateuser.Email, tableName, ok).val IN
            /\ calls' = [calls EXCEPT ![p] =
                           <<GetItemCall(table, updateuser.Email, tableName, ok)>>]
            /\ curruser' = [curruser EXCEPT ![p] = cur]
            /\ IF DoesNotExist(cur)
                 THEN Finish(p, Result(Nil, ErrorUserDoesNotExists))
               ELSE pc' = [pc EXCEPT ![p] = "update_put"] /\ UNCHANGED ret
  /\ UNCHANGED <<table, prev>>
\* UpdateUser up to and including its GetItem
UpdateUser(p, body) ==
  /\ Begin(p, "UpdateUser", Request(body, ""))
  /\ IF ~JsonOk(body)
       THEN /\ Finish(p, Result(Nil, ErrorInvalidUserData))
            /\ UNCHANGED <<user, curruser, calls>>
     ELSE LET updateuser == JsonUnmarshal(body) IN
       /\ user' = [user EXCEPT ![p] = updateuser]
       /\ \E ok \in BOOLEAN :
            LET cur == FetchUser(table, updateuser.Email, tableName, ok).val IN
            /\ calls' = [calls EXCEPT ![p] =
                           <<GetItemCall(table, updateuser.Email, tableName, ok)>>]
            /\ curruser' = [curruser EXCEPT ![p] = cur]
            /\ IF DoesNotExist(cur)
                 THEN Finish(p, Result(Nil, ErrorUserDoesNotExists))
               ELSE IF ~MarshalOk(updateuser)
                 THEN Finish(p, Result(Nil, ErrorMarshalItem))
               ELSE pc' = [pc EXCEPT ![p] = "update_put"] /\ UNCHANGED ret
  /\ UNCHANGED <<table, prev>>

\* a put step that tries a failed PutItem a second time
PutAndReturnRetry(p) ==
  /\ LET attrVal == MarshalMap(user[p])
         put(ok) == StoreCall("PutItem", tableName, "", ok, attrVal) IN
     \E ok1 \in PutOutcomes(attrVal), ok2 \in PutOutcomes(attrVal) :
       /\ calls' = [calls EXCEPT ![p] =
                      IF ok1 THEN Append(@, put(ok1)) ELSE @ \o <<put(ok1), put(ok2)>>]
       /\ IF ok1 \/ ok2
            THEN /\ table' = PutItemOut(table, tableName, attrVal)
                 /\ Finish(p, Result(Ptr(user[p]), NoError))
            ELSE /\ table' = table
                 /\ Finish(p, Result(Nil, ErrorDynamoPutItem))
  /\ UNCHANGED <<op, req, user, curruser, prev>>
\* a put step that returns the user together with the error of a failed put
PutAndReturnUser(p) ==
  /\ LET attrVal == MarshalMap(user[p]) IN
     \E ok \in PutOutcomes(attrVal) :
       /\ calls' = [calls EXCEPT ![p] =
                      Append(@, StoreCall("PutItem", tableName, "", ok, attrVal))]
       /\ table' = IF ok THEN PutItemOut(table, tableName, attrVal) ELSE table
       /\ Finish(p, Result(Ptr(user[p]), IF ok THEN NoError ELSE ErrorDynamoPutItem))
  /\ UNCHANGED <<op, req, user, curruser, prev>>
\* the PutItem of the decoded user and the return after it
PutAndReturn(p) ==
  /\ LET attrVal == MarshalMap(user[p]) IN
     \E ok \in PutOutcomes(attrVal) :
       /\ calls' = [calls EXCEPT ![p] =
                      Append(@, StoreCall("PutItem", tableName, "", ok, attrVal))]
       /\ IF ok
            THEN /\ table' = PutItemOut(table, tableName, attrVal)
                 /\ Finish(p, Result(Ptr(user[p]), NoError))
            ELSE /\ table' = table
                 /\ Finish(p, Result(Nil, ErrorDynamoPutItem))
  /\ UNCHANGED <<op, req, user, curruser, prev>>
\* CreateUser from its PutItem on
CreateUserPut(p) == pc[p] = "create_put" /\ PutAndReturn(p)
\* UpdateUser from its PutItem on
UpdateUserPut(p) == pc[p] = "update_put" /\ PutAndReturn(p)

\* the table name DeleteUser was given
DeleteTableNameGiven(tbl) == tbl
\* the table name DeleteUser puts into its DeleteItemInput: new(string)
DeleteTableName(tbl) == ""
\* the error with the test of err inverted
DeleteResultInverted(ok) == IF ok THEN ErrorDeleteItem ELSE NoError
\* the error DeleteUser returns for a DeleteItem that succeeded or failed
DeleteResult(ok) == IF ok THEN NoError ELSE ErrorDeleteItem

DeleteUser(p, email) ==
  /\ Begin(p, "DeleteUser", Request(MalformedBody, email))
  /\ \E ok \in BOOLEAN :
       /\ calls' = [calls EXCEPT ![p] =
                      <<StoreCall("DeleteItem", DeleteTableName(tableName), email, ok, EmptyItem)>>]
       /\ table' = IF ok THEN DeleteItemOut(table, DeleteTableName(tableName), email)
                   ELSE table
       /\ Finish(p, Result(Nil, DeleteResult(ok)))
  /\ UNCHANGED <<user, curruser, prev>>

\* the caller takes the result; the invocation slot is free for the next call
Respond(p) ==
  /\ pc[p] = "done"
  /\ pc' = [pc EXCEPT ![p] = "idle"]
  /\ op' = [op EXCEPT ![p] = "none"]
  /\ req' = [req EXCEPT ![p] = NoRequest]
  /\ user' = [user EXCEPT ![p] = ZeroUser]
  /\ curruser' = [curruser EXCEPT ![p] = Nil]
  /\ ret' = [ret EXCEPT ![p] = NoResult]
  /\ calls' = [calls EXCEPT ![p] = << >>]
  /\ UNCHANGED table
Return(p) == Respond(p) /\ UNCHANGED prev
\* the same, remembering the invocation that returned for the next one
ReturnLogged(p) == Respond(p) /\ prev' = Invocation(op[p], req[p], ret[p], calls[p])

\* Concurrent invocations.  The racing requests are the ones that meet on one
\* key: the first address, with any firstName and no lastName.
RaceEmail == EmailPool[1]
RaceBodies == {JsonObject(RaceEmail, f, Omitted) : f \in Names \cup {Omitted}}
Next ==
  \E p \in Procs :
    \/ \E body \in RaceBodies : CreateUser(p, body)
    \/ \E body \in RaceBodies : UpdateUser(p, body)
    \/ CreateUserPut(p)
    \/ UpdateUserPut(p)
    \/ DeleteUser(p, RaceEmail)
    \/ Return(p)
Spec == Init /\ [][Next]_vars

\* One invocation at a time, over every request.
CallNext ==
  \/ \E email \in EmailInputs : FetchUserCall(1, email)
  \/ FetchUsersCall(1)
  \/ \E body \in Bodies : CreateUser(1, body)
  \/ \E body \in Bodies : UpdateUser(1, body)
  \/ CreateUserPut(1)
  \/ UpdateUserPut(1)
  \/ \E email \in EmailInputs : DeleteUser(1, email)
  \/ Return(1)
CallSpec == Init /\ [][CallNext]_vars

\* The same with the scheduling of the code: an invocation that has made its
\* existence check goes on to its PutItem, and the PutItem returns or errors.
LiveSpec == CallSpec /\ WF_vars(CreateUserPut(1)) /\ WF_vars(UpdateUserPut(1))

\* Sequences of invocations, each started after the one before returned and
\* remembering it, over the requests for well-formed addresses.
SeqBodies == {b \in Bodies : JsonOk(b) /\ JsonUnmarshal(b).Email \in ValidPool}
SeqNext ==
  \/ \E email \in ValidPool : FetchUserCall(1, email)
  \/ FetchUsersCall(1)
  \/ \E body \in SeqBodies : CreateUser(1, body)
  \/ \E body \in SeqBodies : UpdateUser(1, body)
  \/ CreateUserPut(1)
  \/ UpdateUserPut(1)
  \/ \E email \in ValidPool : DeleteUser(1, email)
  \/ ReturnLogged(1)
SeqSpec == Init /\ [][SeqNext]_vars

\* ------------------------------------------------------------- properties
Done(p, o) == pc[p] = "done" /\ op[p] = o
\* every store call of the sequence cs succeeded
AllOk(cs) == \A i \in DOMAIN cs : cs[i].ok
\* the existence check c (a GetItem) made FetchUser return an error
FetchErr(c) == ~c.ok \/ ~UnmarshalOk(c.item)
\* the existence check c succeeded and found no record
ReadAbsent(c) == c.ok /\ c.item = EmptyItem
Success(u) == Result(Ptr(u), NoError)
Stored(t, e) == GetItemOut(t, tableName, e)

\* C1: in a sequence of calls whose store calls all succeed, a CreateUser for
\* an address without a record succeeds and returns the decoded body, and the
\* CreateUser that directly follows a successful CreateUser for the same
\* address returns "user already exists", issues no PutItem and leaves the
\* record the first call wrote.
C1_CreateTwice ==
  (Done(1, "CreateUser") /\ calls[1] # << >> /\ AllOk(calls[1])) =>
    /\ ReadAbsent(calls[1][1]) => ret[1] = Success(JsonUnmarshal(req[1].Body))
    /\ ( /\ prev.op = "CreateUser"
         /\ prev.ret.err = NoError
         /\ JsonUnmarshal(prev.req.Body).Email = user[1].Email )
       => /\ ret[1] = Result(Nil, ErrorUserAlreadyExists)
          /\ Len(calls[1]) = 1
          /\ Stored(table, user[1].Email) = MarshalMap(Deref(prev.ret.val))
C1_Witness ==
  /\ Done(1, "CreateUser") /\ AllOk(calls[1])
  /\ prev.op = "CreateUser" /\ prev.ret = Success(JsonUnmarshal(prev.req.Body))
  /\ AllOk(prev.calls) /\ Len(prev.calls) = 2 /\ ReadAbsent(prev.calls[1])
  /\ JsonUnmarshal(prev.req.Body).Email = user[1].Email
  /\ req[1].Body # prev.req.Body
  /\ ret[1].err = ErrorUserAlreadyExists

\* C2: an UpdateUser whose body decodes and whose existence check succeeds
\* and finds no record returns "user does not exists" with no user, issues no
\* PutItem, and the table has no record for the address afterwards.
C2_UpdateAbsent ==
  ( /\ Done(1, "UpdateUser") /\ JsonOk(req[1].Body)
    /\ ReadAbsent(calls[1][1]) )
  => /\ ret[1] = Result(Nil, ErrorUserDoesNotExists)
     /\ Len(calls[1]) = 1
     /\ calls[1][1].api = "GetItem"
     /\ JsonUnmarshal(req[1].Body).Email \notin DOMAIN table
C2_Witness ==
  /\ Done(1, "UpdateUser") /\ JsonOk(req[1].Body) /\ ReadAbsent(calls[1][1])
  /\ IsEmailValid(JsonUnmarshal(req[1].Body).Email)
  /\ ret[1].err = ErrorUserDoesNotExists
  /\ table # << >>

\* C3: DeleteUser passes the table name it was given to DeleteItem, so that
\* after a CreateUser succeeded and the DeleteUser for the same address that
\* directly follows it returned no error, FetchUser finds no record (a user
\* with an empty email).
C3_DeleteRemoves ==
  ( /\ Done(1, "DeleteUser") /\ ret[1].err = NoError
    /\ prev.op = "CreateUser" /\ prev.ret.err = NoError
    /\ JsonUnmarshal(prev.req.Body).Email = req[1].Email )
  => /\ calls[1][1].TableName = tableName
     /\ FetchUser(table, req[1].Email, tableName, TRUE).err = NoError
     /\ Deref(FetchUser(table, req[1].Email, tableName, TRUE).val).Email = ""

\* C4: a CreateUser that has passed its existence check does not look at the
\* table again: whenever its PutItem succeeds it returns the decoded body and
\* the table holds that body's record, whatever was stored there meanwhile.
\* With two concurrent CreateUser for one absent address, both therefore
\* succeed and the later put overwrites the earlier one (C4_Witness).
C4_BothCreatesSucceed ==
  [][\A p \in Procs :
       (pc[p] = "create_put" /\ pc'[p] = "done" /\ calls'[p][2].ok)
       => /\ ret'[p] = Success(user[p])
          /\ Stored(table', user[p].Email) = MarshalMap(user[p])]_vars
C4_Witness ==
  \E p, q \in Procs :
    /\ p # q
    /\ Done(p, "CreateUser") /\ Done(q, "CreateUser")
    /\ user[p].Email = user[q].Email /\ user[p] # user[q]
    /\ Len(calls[p]) = 2 /\ Len(calls[q]) = 2
    /\ ReadAbsent(calls[p][1]) /\ ReadAbsent(calls[q][1])
    /\ ret[p] = Success(user[p]) /\ ret[q] = Success(user[q])
    /\ Stored(table, user[p].Email) = MarshalMap(user[q])

\* C5: when the existence check of CreateUser returns an error (the GetItem
\* failed or the item did not decode), CreateUser does not return that error
\* and goes on to the PutItem; if the put succeeds, CreateUser returns the
\* decoded body and the table holds its record, also when the address had a
\* record before.
C5_CreateSwallowsFetchError ==
  (Done(1, "CreateUser") /\ calls[1] # << >> /\ FetchErr(calls[1][1])) =>
    /\ ret[1].err \notin {ErrorFailedToFetchRecord, ErrorFailedToUnmarshalRecord}
    /\ Len(calls[1]) = 2
    /\ calls[1][2].api = "PutItem"
    /\ calls[1][2].ok =>
         /\ ret[1] = Success(JsonUnmarshal(req[1].Body))
         /\ Stored(table, user[1].Email) = MarshalMap(JsonUnmarshal(req[1].Body))
C5_Witness ==
  /\ Done(1, "CreateUser") /\ Len(calls[1]) = 2
  /\ calls[1][1].ok /\ calls[1][1].item = BadItem(user[1].Email)
  /\ calls[1][2].ok
  /\ ret[1] = Success(user[1])
  /\ Stored(table, user[1].Email) = MarshalMap(user[1])

\* C6: when the existence check of UpdateUser returns an error, the test for
\* "user does not exists" is skipped and UpdateUser goes on to the PutItem; if
\* the put succeeds, UpdateUser returns the decoded body and the table holds
\* its record, also when the address had no record before.
C6_UpdateSwallowsFetchError ==
  (Done(1, "UpdateUser") /\ calls[1] # << >> /\ FetchErr(calls[1][1])) =>
    /\ ret[1].err \notin {ErrorUserDoesNotExists, ErrorFailedToFetchRecord,
                          ErrorFailedToUnmarshalRecord}
    /\ Len(calls[1]) = 2
    /\ calls[1][2].api = "PutItem"
    /\ calls[1][2].ok =>
         /\ ret[1] = Success(JsonUnmarshal(req[1].Body))
         /\ Stored(table, user[1].Email) = MarshalMap(JsonUnmarshal(req[1].Body))
C6_Witness ==
  /\ prev.op = "FetchUser" /\ prev.ret = Success(ZeroUser)
  /\ prev.req.Email = user[1].Email
  /\ Done(1, "UpdateUser") /\ Len(calls[1]) = 2
  /\ ~calls[1][1].ok /\ calls[1][2].ok
  /\ ret[1] = Success(user[1])
  /\ Stored(table, user[1].Email) = MarshalMap(user[1])

\* C7: a CreateUser that succeeded returned the decoded body, and the
\* FetchUser for the same address that directly follows it, its GetItem
\* succeeding, returns a user equal to that body in all three fields.
C7_CreateThenFetch ==
  ( /\ Done(1, "FetchUser") /\ AllOk(calls[1])
    /\ prev.op = "CreateUser" /\ prev.ret.err = NoError
    /\ JsonUnmarshal(prev.req.Body).Email = req[1].Email )
  => /\ prev.ret = Success(JsonUnmarshal(prev.req.Body))
     /\ ret[1] = Success(JsonUnmarshal(prev.req.Body))
C7_Witness ==
  /\ Done(1, "FetchUser") /\ AllOk(calls[1])
  /\ prev.op = "CreateUser" /\ prev.ret.err = NoError
  /\ AllOk(prev.calls) /\ ReadAbsent(prev.calls[1])
  /\ JsonUnmarshal(prev.req.Body).Email = req[1].Email
  /\ Deref(ret[1].val).FirstName # Deref(ret[1].val).LastName

\* C8: after an UpdateUser for an address with a record succeeded, all store
\* calls succeeding, the FetchUser for that address that directly follows it
\* returns the body's firstName and lastName, and the empty string for a
\* field the body left out, whatever was stored before.
C8_UpdateOverwrites ==
  ( /\ Done(1, "FetchUser") /\ AllOk(calls[1])
    /\ prev.op = "UpdateUser" /\ prev.ret.err = NoError /\ AllOk(prev.calls)
    /\ JsonUnmarshal(prev.req.Body).Email = req[1].Email )
  => /\ ret[1].err = NoError
     /\ \A a \in {"firstName", "lastName"} :
          Field(Deref(ret[1].val), a) =
            IF a \in DOMAIN prev.req.Body.obj THEN prev.req.Body.obj[a] ELSE ""
C8_Witness ==
  /\ Done(1, "FetchUser") /\ AllOk(calls[1])
  /\ prev.op = "UpdateUser" /\ prev.ret.err = NoError /\ AllOk(prev.calls)
  /\ JsonUnmarshal(prev.req.Body).Email = req[1].Email
  /\ "lastName" \notin DOMAIN prev.req.Body.obj
  /\ "firstName" \in DOMAIN prev.req.Body.obj
  /\ prev.calls[1].item # EmptyItem
  /\ prev.calls[1].item["lastName"].type = "S"
  /\ prev.calls[1].item["firstName"].type = "NULL"
  /\ Deref(ret[1].val).LastName = ""

\* C9: a CreateUser whose body does not decode returns "invalid user data",
\* and one whose decoded email fails IsEmailValid returns "invalid email";
\* both return no user, issue no store call and leave the table as it was.
C9_RejectsBeforeStore ==
  [][( /\ pc[1] = "idle" /\ op'[1] = "CreateUser"
       /\ (~JsonOk(req'[1].Body) \/ ~IsEmailValid(JsonUnmarshal(req'[1].Body).Email)) )
     => /\ pc'[1] = "done"
        /\ ret'[1] = Result(Nil, IF ~JsonOk(req'[1].Body) THEN ErrorInvalidUserData
                                 ELSE ErrorInvalidEmail)
        /\ calls'[1] = << >>
        /\ table' = table]_vars
C9_Witness ==
  /\ Done(1, "CreateUser")
  /\ JsonOk(req[1].Body) /\ JsonUnmarshal(req[1].Body).Email = "not-an-email"
  /\ ret[1] = Result(Nil, ErrorInvalidEmail)
  /\ calls[1] = << >>
  /\ table # << >>

\* C10: a DeleteUser whose DeleteItem succeeds returns no error; on an address
\* without a record it leaves the table as it was, and a DeleteUser that
\* directly follows a successful DeleteUser for the same address leaves the
\* table as the first one left it and returns the same result.
C10_DeleteIdempotent ==
  [][(pc[1] = "idle" /\ op'[1] = "DeleteUser" /\ calls'[1][1].ok)
     => /\ ret'[1] = Result(Nil, NoError)
        /\ req'[1].Email \notin DOMAIN table => table' = table
        /\ ( /\ prev.op = "DeleteUser" /\ prev.ret.err = NoError
             /\ prev.req.Email = req'[1].Email )
           => (table' = table /\ ret'[1] = prev.ret)]_vars
C10_Witness ==
  /\ Done(1, "DeleteUser") /\ calls[1][1].ok /\ ret[1] = Result(Nil, NoError)
  /\ prev.op = "DeleteUser" /\ prev.ret = Result(Nil, NoError)
  /\ prev.req.Email = req[1].Email
  /\ req[1].Email \notin DOMAIN table

\* the users of a list FetchUsers returned
Listed(res) == {Deref(res.val)[i] : i \in DOMAIN Deref(res.val)}

\* C11 as claimed: every user that FetchUser, FetchUsers, CreateUser or
\* UpdateUser returns together with no error has a non-empty email.
C11_AlwaysNonEmpty ==
  /\ ( /\ pc[1] = "done" /\ op[1] \in {"FetchUser", "CreateUser", "UpdateUser"}
       /\ ret[1].err = NoError )
     => (ret[1].val # Nil /\ Deref(ret[1].val).Email # "")
  /\ (Done(1, "FetchUsers") /\ ret[1].err = NoError)
     => \A u \in Listed(ret[1]) : u.Email # ""
\* C11 as amended: every user that FetchUsers, CreateUser or UpdateUser
\* returns together with no error has a non-empty email; the user FetchUser
\* returns with no error has the email asked for when the key has a record
\* and the empty email when it has none.
C11_ReturnedEmails ==
  /\ ( /\ pc[1] = "done" /\ op[1] \in {"CreateUser", "UpdateUser"}
       /\ ret[1].err = NoError )
     => (ret[1].val # Nil /\ Deref(ret[1].val).Email # "")
  /\ (Done(1, "FetchUsers") /\ ret[1].err = NoError)
     => \A u \in Listed(ret[1]) : u.Email # ""
  /\ (Done(1, "FetchUser") /\ ret[1].err = NoError)
     => /\ ret[1].val # Nil
        /\ Deref(ret[1].val).Email =
             IF req[1].Email \in DOMAIN table THEN req[1].Email ELSE ""
C11_Witness ==
  /\ Done(1, "FetchUsers") /\ ret[1].err = NoError
  /\ Cardinality(Listed(ret[1])) >= 2

C13_FetchOutcomes ==
  Done(1, "FetchUser") =>
    LET key == req[1].Email
        present == key \in DOMAIN table
    IN /\ Len(calls[1]) = 1
       /\ ~calls[1][1].ok => ret[1] = Result(Nil, ErrorFailedToFetchRecord)
       /\ (calls[1][1].ok /\ ~present) =>
            (ret[1].err = NoError /\ ret[1].val # Nil /\ Deref(ret[1].val).Email = "")
       /\ (calls[1][1].ok /\ present /\ UnmarshalOk(table[key])) =>
            /\ ret[1].err = NoError /\ ret[1].val # Nil
            /\ MarshalMap(Deref(ret[1].val)) = table[key]
       /\ (calls[1][1].ok /\ present /\ ~UnmarshalOk(table[key])) =>
            ret[1] = Result(Nil, ErrorFailedToUnmarshalRecord)
C13_Witness ==
  /\ Done(1, "FetchUser") /\ calls[1][1].ok
  /\ req[1].Email \in ValidPool /\ req[1].Email \notin DOMAIN table
  /\ table # << >>
  /\ ret[1] = Success(ZeroUser)

\* C14: UpdateUser never returns "invalid email", and the outcome of an
\* UpdateUser whose body decodes is fixed by its store calls alone: "user does
\* not exists" and no PutItem when the existence check succeeds and finds no
\* record; otherwise a PutItem, and the decoded body or "could not dynamo put
\* item" as that put succeeds or fails, whether or not the email is valid.
C14_UpdateNoValidation ==
  Done(1, "UpdateUser") =>
    /\ ret[1].err # ErrorInvalidEmail
    /\ JsonOk(req[1].Body) =>
         IF ReadAbsent(calls[1][1])
           THEN ret[1] = Result(Nil, ErrorUserDoesNotExists) /\ Len(calls[1]) = 1
           ELSE /\ Len(calls[1]) = 2
                /\ ret[1] = IF calls[1][2].ok THEN Success(JsonUnmarshal(req[1].Body))
                            ELSE Result(Nil, ErrorDynamoPutItem)
C14_Witness ==
  /\ Done(1, "UpdateUser") /\ JsonOk(req[1].Body)
  /\ ~IsEmailValid(JsonUnmarshal(req[1].Body).Email)
  /\ AllOk(calls[1]) /\ Len(calls[1]) = 2
  /\ ret[1] = Success(JsonUnmarshal(req[1].Body))

\* C15: CreateUser returns the error of the first step that fails, in the
\* order decode, email validation, existence check, put, and makes no store
\* call after that step: "invalid user data" before "invalid email" before
\* "user already exists" (GetItem only, no PutItem) before "could not dynamo
\* put item".
C15_CreateOrder ==
  Done(1, "CreateUser") =>
    LET body == req[1].Body
        exists == /\ calls[1][1].ok /\ UnmarshalOk(calls[1][1].item)
                  /\ calls[1][1].item # EmptyItem
    IN /\ \A i \in DOMAIN calls[1] : calls[1][i].api = <<"GetItem", "PutItem">>[i]
       /\ IF ~JsonOk(body)
            THEN ret[1].err = ErrorInvalidUserData /\ calls[1] = << >>
          ELSE IF ~IsEmailValid(JsonUnmarshal(body).Email)
            THEN ret[1].err = ErrorInvalidEmail /\ calls[1] = << >>
          ELSE IF exists
            THEN ret[1].err = ErrorUserAlreadyExists /\ Len(calls[1]) = 1
          ELSE /\ Len(calls[1]) = 2
               /\ ret[1].err = IF calls[1][2].ok THEN NoError ELSE ErrorDynamoPutItem
C15_Witness ==
  /\ Done(1, "CreateUser") /\ JsonOk(req[1].Body)
  /\ JsonUnmarshal(req[1].Body).Email \in DOMAIN table
  /\ ret[1].err = ErrorInvalidEmail
  /\ calls[1] = << >>

\* C16: a step of CreateUser or UpdateUser that does not return success
\* leaves the table as it was, and every error (one of the six) is returned
\* with no user; so the table after a call that returned an error is the
\* table before the call.
C16_ErrorLeavesTable ==
  [][( /\ op'[1] \in {"CreateUser", "UpdateUser"}
       /\ pc'[1] # pc[1]
       /\ ~(pc'[1] = "done" /\ ret'[1].err = NoError) )
     => /\ table' = table
        /\ pc'[1] = "done" =>
             /\ ret'[1].val = Nil
             /\ ret'[1].err \in {ErrorInvalidUserData, ErrorInvalidEmail,
                                 ErrorUserAlreadyExists, ErrorUserDoesNotExists,
                                 ErrorMarshalItem, ErrorDynamoPutItem}]_vars
C16_Witness ==
  /\ pc[1] = "done" /\ op[1] \in {"CreateUser", "UpdateUser"}
  /\ Len(calls[1]) = 2 /\ calls[1][1].ok /\ ~calls[1][2].ok
  /\ ret[1] = Result(Nil, ErrorDynamoPutItem)
  /\ user[1].Email \in DOMAIN table
  /\ table[user[1].Email] # MarshalMap(user[1])

\* C17: a FetchUsers whose scan fails returns "failed to fetch record" and no
\* list; one whose scan succeeds returns the records of the table, each once:
\* the record a directly preceding successful CreateUser or UpdateUser wrote
\* is in the list as written, and the address a directly preceding successful
\* DeleteUser deleted is not.
C17_ListsLiveRecords ==
  Done(1, "FetchUsers") =>
    /\ ~calls[1][1].ok => ret[1] = Result(Nil, ErrorFailedToFetchRecord)
    /\ (calls[1][1].ok /\ \A k \in DOMAIN table : UnmarshalOk(table[k])) =>
         /\ ret[1].err = NoError /\ ret[1].val # Nil
         /\ Len(Deref(ret[1].val)) = Cardinality(DOMAIN table)
         /\ {MarshalMap(u) : u \in Listed(ret[1])} = {table[k] : k \in DOMAIN table}
         /\ (prev.op \in {"CreateUser", "UpdateUser"} /\ prev.ret.err = NoError)
            => Deref(prev.ret.val) \in Listed(ret[1])
         /\ (prev.op = "DeleteUser" /\ prev.ret.err = NoError)
            => \A u \in Listed(ret[1]) : u.Email # prev.req.Email

\* the store calls invocation p has issued, by name
Apis(p) == [i \in DOMAIN calls[p] |-> calls[p][i].api]
CallShape(p) ==
  CASE op[p] = "none" -> Apis(p) = << >>
    [] op[p] = "FetchUser" -> Apis(p) = <<"GetItem">>
    [] op[p] = "FetchUsers" -> Apis(p) = <<"Scan">>
    [] op[p] = "DeleteUser" -> Apis(p) = <<"DeleteItem">>
    [] op[p] \in {"CreateUser", "UpdateUser"} ->
         IF pc[p] = "done"
           THEN Apis(p) \in {<< >>, <<"GetItem">>, <<"GetItem", "PutItem">>}
           ELSE Apis(p) = <<"GetItem">>

\* C18: CreateUser and UpdateUser issue at most one GetItem and after it at
\* most one PutItem, never a PutItem first and never a call twice; FetchUser,
\* FetchUsers and DeleteUser issue exactly one store call (GetItem, Scan,
\* DeleteItem); and every invocation that has started returns.
C18_StoreCallsAndReturn ==
  /\ [](CallShape(1))
  /\ (pc[1] # "idle") ~> (pc[1] = "done")
C18_Witness ==
  /\ Done(1, "UpdateUser")
  /\ Apis(1) = <<"GetItem", "PutItem">>
  /\ ~calls[1][1].ok /\ ~calls[1][2].ok
  /\ ret[1] = Result(Nil, ErrorDynamoPutItem)

\* two results of the fetch operation o are the same, the list of FetchUsers
\* taken without its order
SameResult(o, r1, r2) ==
  IF o = "FetchUsers" /\ r1.val # Nil /\ r2.val # Nil
    THEN r1.err = r2.err /\ Listed(r1) = Listed(r2)
    ELSE r1 = r2

\* C19: a FetchUser or FetchUsers call leaves the table as it found it,
\* whatever its input and the outcome of its store call, and keeps nothing
\* that changes a later call: the same fetch made again with the same store
\* outcome returns the same result.
C19_FetchReadOnly ==
  [][(pc[1] = "idle" /\ op'[1] \in {"FetchUser", "FetchUsers"}) =>
       /\ table' = table
       /\ (prev.op = op'[1] /\ prev.req = req'[1]
           /\ prev.calls[1].ok = calls'[1][1].ok)
          => SameResult(op'[1], prev.ret, ret'[1])]_vars
C19_Witness ==
  /\ Done(1, "FetchUser")
  /\ prev.op = "FetchUser" /\ prev.req = req[1]
  /\ AllOk(calls[1]) /\ AllOk(prev.calls)
  /\ ret[1].err = NoError /\ Deref(ret[1].val).Email = req[1].Email
  /\ prev.ret = ret[1]

\* invocation p takes the put step of an UpdateUser
UpdatePuts(p) == pc[p] = "update_put" /\ pc'[p] = "done"

====
